---- MODULE Spec2Model ----
(***************************************************************************)
(* Model of cli/src/util.rs of ffsend: error printing, quitting, prompts,  *)
(* password / owner token acquisition, yes/no parsing and byte formatting. *)
(*                                                                         *)
(* Text typed by the user is a sequence of one-character strings, so that  *)
(* trimming, lower-casing and prefix tests are computed as the code does.  *)
(* Fixed program messages are atomic strings.                              *)
(***************************************************************************)
EXTENDS Integers, Sequences, FiniteSets, TLC

VARIABLES
    matcher,    \* the MainMatcher: [no_interact, assume_yes, force]
    pc,         \* "idle" | "reading" | "returned" | "exited"
    call,       \* the util function being executed and its arguments
    password,   \* the caller's Option<String> handed to ensure_password
    token,      \* the caller's Option<String> handed to ensure_owner_token
    ret,        \* the value returned by the call
    out,        \* lines written to stdout / stderr by the call, in order
    reads,      \* number of reads from standard input done by the call
    lastin,     \* the last line read from standard input by the call
    exitCode,   \* process exit code, NoExit while the process runs
    ncalls,     \* number of calls made so far
    input,      \* derive_bool: the argument
    derived,    \* derive_bool: the result
    bytes,      \* format_bytes: the argument (u64 as base-1024 limbs)
    ties,       \* format_bytes: tie rule of the float formatter of the build
    formatted   \* format_bytes: the result

vars == <<matcher, pc, call, password, token, ret, out, reads, lastin,
          exitCode, ncalls, input, derived, bytes, ties, formatted>>

(***************************************************************************)
(* Bounds                                                                  *)
(***************************************************************************)
MaxCalls == 2       \* calls made by the command before it finishes
MaxReads == 3       \* lines the user types into one call
MaxChain == 3       \* length of an error's cause chain
MaxLen == 3         \* length of the exhaustively enumerated answers
MaxSuffix == 2      \* length of the suffix appended to a keyword
MaxSmall == 2100    \* byte counts enumerated one by one from 0

(***************************************************************************)
(* Option values                                                           *)
(***************************************************************************)
NoneB == [some |-> FALSE, v |-> FALSE]
SomeB(b) == [some |-> TRUE, v |-> b]
OptBool == {NoneB, SomeB(TRUE), SomeB(FALSE)}

NoneS == [some |-> FALSE, v |-> <<>>]
SomeS(s) == [some |-> TRUE, v |-> s]

(***************************************************************************)
(* str::trim, str::to_lowercase, str::starts_with                          *)
(***************************************************************************)
WhiteSpace == {" ", "\t", "\n", "\r"}

UpperCase == {"Y", "E", "S", "N", "O", "T", "R", "U", "F", "A", "L"}

to_lowercase_char(c) ==
    CASE c = "Y" -> "y" [] c = "E" -> "e" [] c = "S" -> "s"
      [] c = "N" -> "n" [] c = "O" -> "o" [] c = "T" -> "t"
      [] c = "R" -> "r" [] c = "U" -> "u" [] c = "F" -> "f"
      [] c = "A" -> "a" [] c = "L" -> "l" [] OTHER -> c

to_lowercase(s) == [i \in 1..Len(s) |-> to_lowercase_char(s[i])]

RECURSIVE trim_start(_)
trim_start(s) ==
    IF s # <<>> /\ Head(s) \in WhiteSpace THEN trim_start(Tail(s)) ELSE s

RECURSIVE trim_end(_)
trim_end(s) ==
    IF s # <<>> /\ s[Len(s)] \in WhiteSpace
    THEN trim_end(SubSeq(s, 1, Len(s) - 1))
    ELSE s

trim(s) == trim_end(trim_start(s))

starts_with(s, p) == Len(s) >= Len(p) /\ SubSeq(s, 1, Len(p)) = p

(***************************************************************************)
(* derive_bool                                                             *)
(***************************************************************************)
derive_bool_noye(inp) ==
    LET s == to_lowercase(trim(inp)) IN
    IF s \in {<<"y">>, <<"t">>, <<"1">>} THEN SomeB(TRUE)
    ELSE IF s \in {<<"n">>, <<"f">>, <<"0">>} THEN SomeB(FALSE)
    ELSE IF starts_with(s, <<"y", "e", "s">>)
            \/ starts_with(s, <<"t", "r", "u", "e">>) THEN SomeB(TRUE)
    ELSE IF starts_with(s, <<"n", "o">>)
            \/ starts_with(s, <<"f", "a", "l", "s", "e">>) THEN SomeB(FALSE)
    ELSE NoneB

derive_bool(inp) ==
    LET s == to_lowercase(trim(inp)) IN
    IF s \in {<<"y">>, <<"y", "e">>, <<"t">>, <<"1">>} THEN SomeB(TRUE)
    ELSE IF s \in {<<"n">>, <<"f">>, <<"0">>} THEN SomeB(FALSE)
    ELSE IF starts_with(s, <<"y", "e", "s">>)
            \/ starts_with(s, <<"t", "r", "u", "e">>) THEN SomeB(TRUE)
    ELSE IF starts_with(s, <<"n", "o">>)
            \/ starts_with(s, <<"f", "a", "l", "s", "e">>) THEN SomeB(FALSE)
    ELSE NoneB

(***************************************************************************)
(* format_bytes.  A u64 is seven base-1024 limbs, least significant first  *)
(* (the seventh below 16), so that 1024^4 and 2^64 are within reach; the   *)
(* value of an f64 holding a whole number is written the same way.         *)
(***************************************************************************)
kb == 1024
NLimbs == 7
TopLimbMax == 15
Mantissa == 53

RECURSIVE Pow2(_)
Pow2(n) == IF n <= 0 THEN 1 ELSE 2 * Pow2(n - 1)

\* Number of significant bits of a limb.
RECURSIVE BitLen(_)
BitLen(x) == IF x = 0 THEN 0 ELSE 1 + BitLen(x \div 2)

\* Index of the most significant non-zero limb, 0 for the number zero.
TopLimb(b) ==
    IF \E i \in 1..Len(b) : b[i] # 0
    THEN CHOOSE i \in 1..Len(b) : b[i] # 0 /\ \A j \in (i + 1)..Len(b) : b[j] = 0
    ELSE 0

\* b + c * kb^(i-1), the carry running upwards; the top limb takes the rest.
RECURSIVE AddAt(_, _, _)
AddAt(b, i, c) ==
    IF c = 0 THEN b
    ELSE IF i = Len(b) THEN [b EXCEPT ![i] = b[i] + c]
    ELSE AddAt([b EXCEPT ![i] = (b[i] + c) % kb], i + 1, (b[i] + c) \div kb)

\* `bytes as f64`: the nearest number with a 53 bit mantissa, ties to even.
as_f64(b) ==
    LET top  == TopLimb(b)
        bits == IF top = 0 THEN 0 ELSE 10 * (top - 1) + BitLen(b[top])
    IN  IF bits <= Mantissa THEN b
        ELSE LET s    == bits - Mantissa
                 m    == Pow2(s)
                 low2 == b[1] + kb * b[2]
                 low  == low2 % m
                 odd  == (low2 \div m) % 2 = 1
                 up   == 2 * low > m \/ (2 * low = m /\ odd)
                 cut  == low2 - low
                 t    == [b EXCEPT ![1] = cut % kb, ![2] = cut \div kb]
             IN  IF up
                 THEN IF s <= 10 THEN AddAt(t, 1, m) ELSE AddAt(t, 2, m \div kb)
                 ELSE t

\* f >= kb^u
AtLeastPow(f, u) == \E i \in (u + 1)..Len(f) : f[i] # 0

\* floor(f / kb^u)
WholePart(f, u) ==
    LET RECURSIVE W(_)
        W(i) == IF i > Len(f) THEN 0 ELSE f[i] + kb * W(i + 1)
    IN  W(u + 1)

\* 100 * (f mod kb^u) / kb^u as <<floor, remainder limbs>>.
Hundredths(f, u, k) ==
    LET RECURSIVE H(_, _, _)
        H(i, carry, rem) ==
            IF i > u THEN <<carry, rem>>
            ELSE H(i + 1, (k * f[i] + carry) \div kb,
                   Append(rem, (k * f[i] + carry) % kb))
    IN  H(1, 0, <<>>)

\* format!("{:.*}", 2, f / kb^u): the decimal expansion of the exact quotient,
\* cut after two digits and rounded to nearest; `rule` is what the formatter
\* of the toolchain does on an exact tie ("even" or "away").
fmt2(f, u, rule) ==
    LET h     == Hundredths(f, u, 100)
        cents == h[1]
        rem   == h[2]
        lowz  == \A i \in 1..(u - 1) : rem[i] = 0
        above == rem[u] > kb \div 2 \/ (rem[u] = kb \div 2 /\ ~lowz)
        tie   == rem[u] = kb \div 2 /\ lowz
        up    == above \/ (tie /\ (rule = "away" \/ cents % 2 = 1))
        c     == IF up THEN cents + 1 ELSE cents
    IN  IF c = 100
        THEN [whole |-> WholePart(f, u) + 1, frac |-> 0, decimals |-> 2]
        ELSE [whole |-> WholePart(f, u), frac |-> c, decimals |-> 2]

Formatted(n, unit) ==
    [unit |-> unit, whole |-> n.whole, frac |-> n.frac, decimals |-> n.decimals]

format_bytes(b, rule) ==
    LET f == as_f64(b) IN
    IF AtLeastPow(f, 4) THEN Formatted(fmt2(f, 4, rule), "TiB")
    ELSE IF AtLeastPow(f, 3) THEN Formatted(fmt2(f, 3, rule), "GiB")
    ELSE IF AtLeastPow(f, 2) THEN Formatted(fmt2(f, 2, rule), "MiB")
    ELSE IF AtLeastPow(f, 1) THEN Formatted(fmt2(f, 1, rule), "KiB")
    ELSE [unit |-> "B", whole |-> f[1], frac |-> 0, decimals |-> 0]

(***************************************************************************)
(* Output.  A line is [stream, kind, text]: text holds the parts that the  *)
(* format string puts together.                                            *)
(***************************************************************************)
ErrLine(msg) == [stream |-> "stderr", kind |-> "error:", text |-> <<msg>>]
CauseLine(msg) == [stream |-> "stderr", kind |-> "caused by:", text |-> <<msg>>]
ErrPrint(kind, text) == [stream |-> "stderr", kind |-> kind, text |-> text]
OutPrint(msg) == [stream |-> "stdout", kind |-> "println", text |-> <<msg>>]

Undefined == "An undefined error occurred"

\* iter.filter(|err| !err.is_empty())
RECURSIVE filter_nonempty(_)
filter_nonempty(chain) ==
    IF chain = <<>> THEN <<>>
    ELSE IF Head(chain) = "" THEN filter_nonempty(Tail(chain))
    ELSE <<Head(chain)>> \o filter_nonempty(Tail(chain))

\* print_error with the index taken before the empty messages are dropped.
print_error_early_index(chain) ==
    LET lines == [i \in 1..Len(chain) |->
                    IF i = 1 THEN ErrLine(chain[i]) ELSE CauseLine(chain[i])]
        kept  == SelectSeq(lines, LAMBDA l : l.text # <<"">>)
    IN  IF Len(kept) = 0 THEN <<ErrLine(Undefined)>> ELSE kept

\* print_error: `chain` holds format!("{}", err) of err.causes(), the error
\* itself first.  The result is the lines written.
print_error(chain) ==
    LET printable == filter_nonempty(chain)
        count     == Len(printable)
    IN  IF count = 0 THEN <<ErrLine(Undefined)>>
        ELSE [i \in 1..count |->
                IF i - 1 = 0 THEN ErrLine(printable[i])
                ELSE CauseLine(printable[i])]

\* print_error_msg: err_msg(err).compat() is a chain of one.
print_error_msg(msg) == print_error(<<msg>>)

(***************************************************************************)
(* ErrorHints                                                              *)
(***************************************************************************)
ErrorHints ==
    [password : BOOLEAN, owner : BOOLEAN, history : BOOLEAN,
     force : BOOLEAN, verbose : BOOLEAN, help : BOOLEAN]

ErrorHints_default ==
    [password |-> FALSE, owner |-> FALSE, history |-> FALSE,
     force |-> FALSE, verbose |-> TRUE, help |-> TRUE]

ErrorHints_any(h) ==
    h.password \/ h.owner \/ h.history \/ h.force \/ h.verbose \/ h.help

HintLine(flag, option) ==
    IF flag THEN <<ErrPrint("hint", <<option>>)>> ELSE <<>>

\* ErrorHints::print that writes the separator before looking at the flags.
ErrorHints_print_always(h) ==
    <<ErrPrint("blank", <<>>)>>
    \o HintLine(h.password, "--password <PASSWORD>")
    \o HintLine(h.owner, "--owner <TOKEN>")
    \o HintLine(h.history, "--history <FILE>")
    \o HintLine(h.force, "--force")
    \o HintLine(h.verbose, "--verbose")
    \o HintLine(h.help, "--help")

ErrorHints_print(h) ==
    IF ~ErrorHints_any(h) THEN <<>>
    ELSE <<ErrPrint("blank", <<>>)>>
         \o HintLine(h.password, "--password <PASSWORD>")
         \o HintLine(h.owner, "--owner <TOKEN>")
         \o HintLine(h.history, "--history <FILE>")
         \o HintLine(h.force, "--force")
         \o HintLine(h.verbose, "--verbose")
         \o HintLine(h.help, "--help")

(***************************************************************************)
(* What a piece of code does until it returns, exits or waits for input:   *)
(* [kind, out, code, b, s, opt] with out the lines written, code the exit  *)
(* code, b / s the boolean / text returned, opt the Option<String> it was  *)
(* handed by reference.                                                    *)
(***************************************************************************)
Return(o, b, s, opt) ==
    [kind |-> "return", out |-> o, code |-> {}, b |-> b, s |-> s, opt |-> opt]
Exit(o, code) ==
    [kind |-> "exit", out |-> o, code |-> {code}, b |-> FALSE, s |-> <<>>,
     opt |-> NoneS]
Block(o, opt) ==
    [kind |-> "block", out |-> o, code |-> {}, b |-> FALSE, s |-> <<>>,
     opt |-> opt]

\* The same with the lines `o` written before it.
After(o, r) == [r EXCEPT !.out = o \o r.out]

\* quit
quit == Exit(<<>>, 0)

\* quit_error
quit_error(chain, hints) ==
    Exit(print_error(chain) \o ErrorHints_print(hints), 1)

\* quit_error_msg
quit_error_msg(msg, hints) == quit_error(<<msg>>, hints)

WithOpt(r, opt) == [r EXCEPT !.opt = opt]

(***************************************************************************)
(* Prompts.  A function that reads is in two parts: what it does up to the *)
(* read, and what it does with `res`, the result of the read, which is     *)
(* [ok |-> TRUE, line |-> text] or [ok |-> FALSE, err |-> message].        *)
(***************************************************************************)
Ok(line) == [ok |-> TRUE, line |-> line, err |-> ""]
Err(e) == [ok |-> FALSE, line |-> <<>>, err |-> e]

\* check_empty_password
check_empty_password(pw, m) ==
    IF ~m.force /\ pw = <<>>
    THEN quit_error_msg(
             "An empty password is not supported by the web interface",
             [ErrorHints_default EXCEPT !.force = TRUE, !.verbose = FALSE])
    ELSE Return(<<>>, FALSE, <<>>, NoneS)

\* prompt_password, up to prompt_password_stderr
prompt_password(m) ==
    IF m.no_interact
    THEN quit_error_msg(
             "Missing password, must be specified in no-interact mode",
             [ErrorHints_default EXCEPT !.password = TRUE, !.verbose = FALSE])
    ELSE Block(<<ErrPrint("prompt", <<"Password: ">>)>>, NoneS)

\* prompt_password, from the result of prompt_password_stderr
prompt_password_read(res) ==
    IF res.ok THEN Return(<<>>, FALSE, res.line, NoneS)
    ELSE quit_error(<<"Failed to read password from password prompt", res.err>>,
                    ErrorHints_default)

\* ensure_password that keeps a password that is not needed.
ensure_password_keep(pw, needs, m) ==
    IF pw.some = needs THEN Return(<<>>, FALSE, <<>>, pw)
    ELSE IF needs
    THEN WithOpt(After(<<OutPrint("This file is protected with a password.")>>,
                       prompt_password(m)), pw)
    ELSE Return(<<OutPrint("Ignoring password, it is not required")>>,
                FALSE, <<>>, pw)

\* ensure_password, up to the password prompt
ensure_password(pw, needs, m) ==
    IF pw.some = needs THEN Return(<<>>, FALSE, <<>>, pw)
    ELSE IF needs
    THEN WithOpt(After(<<OutPrint("This file is protected with a password.")>>,
                       prompt_password(m)), pw)
    ELSE Return(<<OutPrint("Ignoring password, it is not required")>>,
                FALSE, <<>>, NoneS)

\* ensure_password, from the result of the password prompt
ensure_password_read(pw, res) ==
    LET r == prompt_password_read(res) IN
    IF r.kind = "exit" THEN WithOpt(r, pw)
    ELSE Return(<<>>, FALSE, <<>>, SomeS(r.s))

\* prompt that reads whatever the mode.
prompt_always(msg, m) == Block(<<ErrPrint("prompt", msg)>>, NoneS)

\* prompt, up to stdin().read_line
prompt(msg, m) ==
    IF m.no_interact
    THEN quit_error_msg(
             "Could not prompt for '{}' in no-interact mode, maybe specify it",
             ErrorHints_default)
    ELSE Block(<<ErrPrint("prompt", msg)>>, NoneS)

\* prompt, from the result of stdin().read_line
prompt_read(res) ==
    IF ~res.ok
    THEN quit_error(<<"Failed to read input from prompt", res.err>>,
                    ErrorHints_default)
    ELSE Return(<<>>, FALSE, trim(res.line), NoneS)

\* The options string of prompt_yes
options(def) ==
    <<IF def.some /\ def.v THEN "Y" ELSE "y",
      IF def.some /\ ~def.v THEN "N" ELSE "n">>

\* prompt_yes, up to the read done by prompt
prompt_yes(msg, def, m) ==
    IF m.assume_yes
    THEN Return(<<ErrPrint("answer", <<msg>> \o options(def) \o <<"yes">>)>>,
                TRUE, <<>>, NoneS)
    ELSE IF m.no_interact
    THEN IF def.some
         THEN Return(<<ErrPrint("answer", <<msg>> \o options(def)
                                  \o <<IF def.v THEN "yes" ELSE "no">>)>>,
                     def.v, <<>>, NoneS)
         ELSE quit_error_msg(
                  "Could not prompt question '{}' in no-interact mode, maybe specify it",
                  ErrorHints_default)
    ELSE prompt(<<msg>> \o options(def), m)

\* prompt_yes that takes yes for an answer it cannot read.
prompt_yes_read_lenient(msg, def, m, res) ==
    LET r == prompt_read(res) IN
    IF r.kind = "exit" THEN r
    ELSE IF r.s = <<>> /\ def.some THEN Return(<<>>, def.v, <<>>, NoneS)
    ELSE IF derive_bool(r.s).some
    THEN Return(<<>>, derive_bool(r.s).v, <<>>, NoneS)
    ELSE Return(<<>>, TRUE, <<>>, NoneS)

\* prompt_yes that ignores the default.
prompt_yes_read_nodefault(msg, def, m, res) ==
    LET r == prompt_read(res) IN
    IF r.kind = "exit" THEN r
    ELSE IF derive_bool(r.s).some
    THEN Return(<<>>, derive_bool(r.s).v, <<>>, NoneS)
    ELSE prompt_yes(msg, def, m)

\* prompt_yes, from the result of the read done by prompt
prompt_yes_read(msg, def, m, res) ==
    LET r == prompt_read(res) IN
    IF r.kind = "exit" THEN r
    ELSE IF r.s = <<>> /\ def.some THEN Return(<<>>, def.v, <<>>, NoneS)
    ELSE IF derive_bool(r.s).some
    THEN Return(<<>>, derive_bool(r.s).v, <<>>, NoneS)
    ELSE prompt_yes(msg, def, m)

\* prompt_owner_token
prompt_owner_token(m) == prompt(<<"Owner token">>, m)

\* The loop of ensure_owner_token, from its head with the token `tok`, until
\* it leaves or prompt_owner_token waits for input.
RECURSIVE ensure_owner_token_loop(_, _, _)
ensure_owner_token_loop(tok, interact, m) ==
    IF ~tok.some
    THEN IF interact THEN prompt_owner_token(m)
         ELSE quit_error_msg(
                  "Missing owner token, must be specified in no-interact mode",
                  [ErrorHints_default EXCEPT !.owner = TRUE, !.verbose = FALSE])
    ELSE IF tok.v = <<>>
    THEN After(<<ErrPrint("eprintln",
                   <<"Empty owner token given, which is invalid. Use {} to cancel.">>)>>,
               ensure_owner_token_loop(NoneS, interact, m))
    ELSE Return(<<>>, FALSE, <<>>, tok)

\* ensure_owner_token that accepts whatever is typed.
ensure_owner_token_read_any(m, res) ==
    LET r == prompt_read(res) IN
    IF r.kind = "exit" THEN r ELSE Return(<<>>, FALSE, <<>>, SomeS(r.s))

\* ensure_owner_token, up to the read done by prompt
ensure_owner_token(tok, m) ==
    LET interact == ~m.no_interact IN
    After(IF interact /\ ~tok.some
          THEN <<OutPrint("The file owner token is required for authentication.")>>
          ELSE <<>>,
          ensure_owner_token_loop(tok, interact, m))

\* ensure_owner_token, from the result of the read done by prompt
ensure_owner_token_read(m, res) ==
    LET r == prompt_read(res) IN
    IF r.kind = "exit" THEN r
    ELSE ensure_owner_token_loop(SomeS(r.s), ~m.no_interact, m)

(***************************************************************************)
(* Answers handed to derive_bool: every text of at most MaxLen characters  *)
(* over Alphabet, and every keyword or near-miss with a suffix, in three   *)
(* spellings, with and without surrounding white space.                    *)
(***************************************************************************)
Alphabet == {"y", "e", "s", "n", "o", "t", "f", "1", "0", " ", "Y", "a"}
SuffixAlphabet == {"s", "x", " ", "E"}

SeqsUpTo(S, n) == UNION {[1..k -> S] : k \in 0..n}

Keywords ==
    {<<"y", "e", "s">>, <<"t", "r", "u", "e">>, <<"n", "o">>,
     <<"f", "a", "l", "s", "e">>, <<"y", "e">>, <<"t", "r">>, <<"f", "a">>,
     <<"y", "e", "a", "h">>, <<"t", "r", "u">>, <<"f", "a", "l", "s">>,
     <<"t">>, <<"n">>, <<"1">>, <<"0">>}

UpperOf(c) ==
    IF \E u \in UpperCase : to_lowercase_char(u) = c
    THEN CHOOSE u \in UpperCase : to_lowercase_char(u) = c
    ELSE c

Spellings(w) ==
    {w, [i \in 1..Len(w) |-> UpperOf(w[i])],
     [i \in 1..Len(w) |-> IF i = 1 THEN UpperOf(w[i]) ELSE w[i]]}

Padded(w) == {w, <<" ">> \o w, w \o <<"\n">>, <<"\t", " ">> \o w \o <<" ", "\n">>}

DeriveInputs ==
    SeqsUpTo(Alphabet, MaxLen)
    \cup UNION {Padded(k \o x) : k \in UNION {Spellings(w) : w \in Keywords},
                                 x \in SeqsUpTo(SuffixAlphabet, MaxSuffix)}

BytesIdle == <<0, 0, 0, 0, 0, 0, 0>>
NoFormat == [unit |-> "", whole |-> 0, frac |-> 0, decimals |-> 0]
Called(fn, def, needs, chain, hints) ==
    [fn |-> fn, def |-> def, needs |-> needs, chain |-> chain, hints |-> hints]
NoCall == Called("none", NoneB, FALSE, <<>>, ErrorHints_default)
NoRead == Err("")
NoRet == [b |-> FALSE, s |-> <<>>]
NoExit == {}

\* The variables of the prompting half, at rest.
PromptAtRest ==
    /\ matcher = [no_interact |-> FALSE, assume_yes |-> FALSE, force |-> FALSE]
    /\ call = NoCall
    /\ password = NoneS
    /\ token = NoneS
    /\ ret = NoRet
    /\ out = <<>>
    /\ reads = 0
    /\ lastin = NoRead
    /\ exitCode = NoExit
    /\ ncalls = 0

InitBool ==
    /\ PromptAtRest
    /\ pc = "idle"
    /\ input \in DeriveInputs
    /\ derived = NoneB
    /\ bytes = BytesIdle
    /\ ties = "even"
    /\ formatted = NoFormat

\* A call of derive_bool(input).
DeriveBool ==
    /\ pc = "idle"
    /\ derived' = derive_bool(input)
    /\ pc' = "returned"
    /\ UNCHANGED <<matcher, call, password, token, ret, out, reads, lastin,
                   exitCode, ncalls, input, bytes, ties, formatted>>

NextBool == DeriveBool

SpecBool == InitBool /\ [][NextBool]_vars

(***************************************************************************)
(* Byte counts handed to format_bytes: every count up to MaxSmall, the     *)
(* counts around each power of 1024, and the counts whose limbs are drawn  *)
(* from LimbChoices (zero, one, half, all ones, and limbs of counts above  *)
(* 2^53 that lie next to a rounding boundary).                             *)
(***************************************************************************)
Limbs(n) == [i \in 1..NLimbs |-> IF i = 1 THEN n % kb
                                 ELSE IF i = 2 THEN (n \div kb) % kb
                                 ELSE 0]

PowLimbs(u) == [i \in 1..NLimbs |-> IF i = u + 1 THEN 1 ELSE 0]
BelowPowLimbs(u) == [i \in 1..NLimbs |-> IF i <= u THEN kb - 1 ELSE 0]

LimbChoices ==
    << {0, 1, 369, 512, 1023}, {0, 512, 655, 1023}, {0, 368, 512, 1023},
       {0, 1, 15, 1023}, {0, 1, 1023}, {0, 8, 1023}, {0, 1, TopLimbMax} >>

BytesInputs ==
    {Limbs(n) : n \in 0..MaxSmall}
    \cup {PowLimbs(u) : u \in 0..(NLimbs - 1)}
    \cup {BelowPowLimbs(u) : u \in 0..(NLimbs - 1)}
    \cup {AddAt(PowLimbs(u), 1, 1) : u \in 1..(NLimbs - 1)}
    \cup {<<a, b, c, d, e, f, g>> :
            a \in LimbChoices[1], b \in LimbChoices[2], c \in LimbChoices[3],
            d \in LimbChoices[4], e \in LimbChoices[5], f \in LimbChoices[6],
            g \in LimbChoices[7]}

InitBytes ==
    /\ PromptAtRest
    /\ pc = "idle"
    /\ input = <<>>
    /\ derived = NoneB
    /\ bytes \in BytesInputs
    /\ ties \in {"even", "away"}
    /\ formatted = NoFormat

\* A call of format_bytes(bytes).
FormatBytes ==
    /\ pc = "idle"
    /\ formatted' = format_bytes(bytes, ties)
    /\ pc' = "returned"
    /\ UNCHANGED <<matcher, call, password, token, ret, out, reads, lastin,
                   exitCode, ncalls, input, derived, bytes, ties>>

NextBytes == FormatBytes

SpecBytes == InitBytes /\ [][NextBytes]_vars

(***************************************************************************)
(* C6                                                                      *)
(***************************************************************************)
UnitNames == <<"B", "KiB", "MiB", "GiB", "TiB">>

\* The largest unit whose power of 1024 the exact count reaches (0 is B).
LargestUnit(b) ==
    IF \E u \in 1..4 : AtLeastPow(b, u)
    THEN CHOOSE u \in 1..4 : AtLeastPow(b, u)
                             /\ \A v \in (u + 1)..4 : ~AtLeastPow(b, v)
    ELSE 0

\* whole.frac is the exact quotient b / 1024^u rounded to two decimals, that
\* is |whole.frac - b / 1024^u| <= 0.005, a tie going either way.  With b =
\* I * 1024^u + F and c = 100 * whole + frac - 100 * I this is
\* (2c - 1) * 1024^u <= 200 * F <= (2c + 1) * 1024^u.
RoundedTo2(b, u, whole, frac) ==
    LET c == 100 * whole + frac - 100 * WholePart(b, u)
        h == Hundredths(b, u, 200)
        q == h[1]
        exact == \A i \in 1..u : h[2][i] = 0
    IN  /\ frac \in 0..99
        /\ 2 * c - 1 <= q
        /\ q < 2 * c + 1 \/ (q = 2 * c + 1 /\ exact)

\* C6: for every byte count format_bytes picks the largest unit among B, KiB,
\* MiB, GiB, TiB whose scaled value is at least 1 (B below 1024) and prints
\* the scaled value rounded to 2 decimals (0 decimals for B); 1536 gives
\* "1.50 KiB" and 0 gives "0 B".
C6_FormatBytes ==
    pc = "returned" =>
        LET u == LargestUnit(bytes) IN
        /\ formatted.unit = UnitNames[u + 1]
        /\ u = 0 => /\ formatted.decimals = 0
                    /\ formatted.whole = bytes[1]
        /\ u > 0 => /\ formatted.decimals = 2
                    /\ RoundedTo2(bytes, u, formatted.whole, formatted.frac)
        /\ bytes = Limbs(1536) =>
              formatted = [unit |-> "KiB", whole |-> 1, frac |-> 50, decimals |-> 2]
        /\ bytes = Limbs(0) =>
              formatted = [unit |-> "B", whole |-> 0, frac |-> 0, decimals |-> 0]

\* The same for the counts an f64 holds exactly (below 2^53).
C6_BelowMantissa ==
    (pc = "returned" /\ bytes[7] = 0 /\ bytes[6] < 8) => C6_FormatBytes

(***************************************************************************)
(* C5                                                                      *)
(***************************************************************************)
\* The texts left of s when white space is removed at both ends.
Cores(s) ==
    {SubSeq(s, p[1] + 1, Len(s) - p[2]) :
        p \in {q \in (0..Len(s)) \X (0..Len(s)) :
                /\ q[1] + q[2] <= Len(s)
                /\ \A k \in 1..q[1] : s[k] \in WhiteSpace
                /\ \A k \in (Len(s) - q[2] + 1)..Len(s) : s[k] \in WhiteSpace
                /\ q[1] + q[2] < Len(s) =>
                      /\ s[q[1] + 1] \notin WhiteSpace
                      /\ s[Len(s) - q[2]] \notin WhiteSpace}}

\* a and the lower-case word w are the same text, letter case set aside.
SameWord(a, w) ==
    /\ Len(a) = Len(w)
    /\ \A k \in 1..Len(w) : a[k] = w[k] \/ a[k] = UpperOf(w[k])

BeginsWith(a, w) == Len(a) >= Len(w) /\ SameWord(SubSeq(a, 1, Len(w)), w)

SaysYes(s) ==
    \E c \in Cores(s) :
        \/ \E w \in {<<"y">>, <<"y", "e">>, <<"t">>, <<"1">>} : SameWord(c, w)
        \/ \E w \in {<<"y", "e", "s">>, <<"t", "r", "u", "e">>} : BeginsWith(c, w)

SaysNo(s) ==
    \E c \in Cores(s) :
        \/ \E w \in {<<"n">>, <<"f">>, <<"0">>} : SameWord(c, w)
        \/ \E w \in {<<"n", "o">>, <<"f", "a", "l", "s", "e">>} : BeginsWith(c, w)

NearMisses ==
    {<<>>, <<"y", "e", "a", "h">>, <<"t", "r">>, <<"f", "a">>}

\* C5: derive_bool, after trimming and without regard to letter case, gives
\* true exactly for y, ye, t, 1 and texts beginning with yes or true, false
\* exactly for n, f, 0 and texts beginning with no or false, and None for
\* every other text, the empty one and yeah, tr, fa among them.
C5_DeriveBool ==
    pc = "returned" =>
        /\ derived = SomeB(TRUE) <=> SaysYes(input)
        /\ derived = SomeB(FALSE) <=> SaysNo(input)
        /\ derived = NoneB <=> ~SaysYes(input) /\ ~SaysNo(input)
        /\ input \in NearMisses => derived = NoneB

C5_Witness ==
    /\ pc = "returned"
    /\ input = <<"\t", " ", "T", "R", "U", "E", "x", " ", "\n">>
    /\ derived = SomeB(TRUE)

(***************************************************************************)
(* The command line program as the caller of util.rs: it makes up to       *)
(* MaxCalls calls, one after the other, on behalf of one MainMatcher, and  *)
(* the user types up to MaxReads lines into each.                          *)
(***************************************************************************)
Matchers == [no_interact : BOOLEAN, assume_yes : BOOLEAN, force : BOOLEAN]

Secret == <<"s", "3", "c">>
Typed ==
    {<<>>, <<" ">>, <<"y">>, <<"N", "o">>, <<"y", "e", "a", "h">>, Secret,
     <<" ", "t", "\t">>}

\* What stdin().read_line gives: the line with its end, nothing at the end
\* of the input, or an error.
LineResults ==
    {Ok(t \o <<"\n">>) : t \in Typed} \cup {Ok(<<>>), Err("broken pipe")}

\* What prompt_password_stderr gives: the line without its end, or an error.
PasswordResults == {Ok(t) : t \in Typed} \cup {Err("broken pipe")}

Question == "Continue?"

Init ==
    /\ matcher \in Matchers
    /\ pc = "idle"
    /\ call = NoCall
    /\ password \in {NoneS, SomeS(<<>>), SomeS(Secret)}
    /\ token \in {NoneS, SomeS(<<>>), SomeS(<<" ">>), SomeS(Secret)}
    /\ ret = NoRet
    /\ out = <<>>
    /\ reads = 0
    /\ lastin = NoRead
    /\ exitCode = NoExit
    /\ ncalls = 0
    /\ input = <<>>
    /\ derived = NoneB
    /\ bytes = BytesIdle
    /\ ties = "even"
    /\ formatted = NoFormat

\* The call has come to `o`: it returned, left the process, or waits.
Took(o) ==
    /\ pc' = CASE o.kind = "return" -> "returned"
               [] o.kind = "exit" -> "exited"
               [] o.kind = "block" -> "reading"
    /\ out' = out \o o.out
    /\ exitCode' = o.code
    /\ ret' = [b |-> o.b, s |-> o.s]

Enter(c) ==
    /\ pc = "idle"
    /\ ncalls < MaxCalls
    /\ ncalls' = ncalls + 1
    /\ call' = c
    /\ UNCHANGED <<matcher, reads, lastin, input, derived, bytes, ties, formatted>>

Reading(fn, res) ==
    /\ pc = "reading"
    /\ call.fn = fn
    /\ reads < MaxReads
    /\ reads' = reads + 1
    /\ lastin' = res
    /\ UNCHANGED <<matcher, call, ncalls, input, derived, bytes, ties, formatted>>

CallPrompt ==
    /\ Enter(Called("prompt", NoneB, FALSE, <<>>, ErrorHints_default))
    /\ Took(prompt(<<"Value">>, matcher))
    /\ UNCHANGED <<password, token>>

ReadPrompt ==
    \E res \in LineResults :
        /\ Reading("prompt", res)
        /\ Took(prompt_read(res))
        /\ UNCHANGED <<password, token>>

CallPromptOwnerToken ==
    /\ Enter(Called("prompt_owner_token", NoneB, FALSE, <<>>, ErrorHints_default))
    /\ Took(prompt_owner_token(matcher))
    /\ UNCHANGED <<password, token>>

ReadPromptOwnerToken ==
    \E res \in LineResults :
        /\ Reading("prompt_owner_token", res)
        /\ Took(prompt_read(res))
        /\ UNCHANGED <<password, token>>

CallPromptPassword ==
    /\ Enter(Called("prompt_password", NoneB, FALSE, <<>>, ErrorHints_default))
    /\ Took(prompt_password(matcher))
    /\ UNCHANGED <<password, token>>

ReadPromptPassword ==
    \E res \in PasswordResults :
        /\ Reading("prompt_password", res)
        /\ Took(prompt_password_read(res))
        /\ UNCHANGED <<password, token>>

CallPromptYes ==
    \E def \in OptBool :
        /\ Enter(Called("prompt_yes", def, FALSE, <<>>, ErrorHints_default))
        /\ Took(prompt_yes(Question, def, matcher))
        /\ UNCHANGED <<password, token>>

ReadPromptYes ==
    \E res \in LineResults :
        /\ Reading("prompt_yes", res)
        /\ Took(prompt_yes_read(Question, call.def, matcher, res))
        /\ UNCHANGED <<password, token>>

CallEnsurePassword ==
    \E needs \in BOOLEAN :
        LET o == ensure_password(password, needs, matcher) IN
        /\ Enter(Called("ensure_password", NoneB, needs, <<>>, ErrorHints_default))
        /\ Took(o)
        /\ password' = o.opt
        /\ UNCHANGED token

ReadEnsurePassword ==
    \E res \in PasswordResults :
        LET o == ensure_password_read(password, res) IN
        /\ Reading("ensure_password", res)
        /\ Took(o)
        /\ password' = o.opt
        /\ UNCHANGED token

CallEnsureOwnerToken ==
    LET o == ensure_owner_token(token, matcher) IN
    /\ Enter(Called("ensure_owner_token", NoneB, FALSE, <<>>, ErrorHints_default))
    /\ Took(o)
    /\ token' = o.opt
    /\ UNCHANGED password

ReadEnsureOwnerToken ==
    \E res \in LineResults :
        LET o == ensure_owner_token_read(matcher, res) IN
        /\ Reading("ensure_owner_token", res)
        /\ Took(o)
        /\ token' = o.opt
        /\ UNCHANGED password

CallCheckEmptyPassword ==
    /\ password.some
    /\ Enter(Called("check_empty_password", NoneB, FALSE, <<>>, ErrorHints_default))
    /\ Took(check_empty_password(password.v, matcher))
    /\ UNCHANGED <<password, token>>

CallQuit ==
    /\ Enter(Called("quit", NoneB, FALSE, <<>>, ErrorHints_default))
    /\ Took(quit)
    /\ UNCHANGED <<password, token>>

\* The caller goes on after a call that returned.
Continue ==
    /\ pc = "returned"
    /\ pc' = "idle"
    /\ call' = NoCall
    /\ ret' = NoRet
    /\ out' = <<>>
    /\ reads' = 0
    /\ lastin' = NoRead
    /\ UNCHANGED <<matcher, password, token, exitCode, ncalls, input, derived,
                   bytes, ties, formatted>>

Next ==
    \/ CallPrompt \/ ReadPrompt
    \/ CallPromptOwnerToken \/ ReadPromptOwnerToken
    \/ CallPromptPassword \/ ReadPromptPassword
    \/ CallPromptYes \/ ReadPromptYes
    \/ CallEnsurePassword \/ ReadEnsurePassword
    \/ CallEnsureOwnerToken \/ ReadEnsureOwnerToken
    \/ CallCheckEmptyPassword
    \/ CallQuit
    \/ Continue

Spec == Init /\ [][Next]_vars

(***************************************************************************)
(* Errors: the program prints or quits with an error of up to MaxChain     *)
(* causes, some of which may print as the empty text.                      *)
(***************************************************************************)
Messages == {"", "Failed to read input from prompt", "broken pipe"}
Chains == UNION {[1..k -> Messages] : k \in 1..MaxChain}

InitErr ==
    /\ PromptAtRest
    /\ pc = "idle"
    /\ input = <<>>
    /\ derived = NoneB
    /\ bytes = BytesIdle
    /\ ties = "even"
    /\ formatted = NoFormat

CallPrintError ==
    \E chain \in Chains :
        /\ Enter(Called("print_error", NoneB, FALSE, chain, ErrorHints_default))
        /\ Took(Return(print_error(chain), FALSE, <<>>, NoneS))
        /\ UNCHANGED <<password, token>>

CallPrintErrorMsg ==
    \E msg \in Messages :
        /\ Enter(Called("print_error_msg", NoneB, FALSE, <<msg>>, ErrorHints_default))
        /\ Took(Return(print_error_msg(msg), FALSE, <<>>, NoneS))
        /\ UNCHANGED <<password, token>>

CallQuitError ==
    \E chain \in Chains, hints \in ErrorHints :
        /\ Enter(Called("quit_error", NoneB, FALSE, chain, hints))
        /\ Took(quit_error(chain, hints))
        /\ UNCHANGED <<password, token>>

CallQuitErrorMsg ==
    \E msg \in Messages, hints \in ErrorHints :
        /\ Enter(Called("quit_error_msg", NoneB, FALSE, <<msg>>, hints))
        /\ Took(quit_error_msg(msg, hints))
        /\ UNCHANGED <<password, token>>

NextErr ==
    \/ CallPrintError
    \/ CallPrintErrorMsg
    \/ CallQuitError
    \/ CallQuitErrorMsg
    \/ CallQuit
    \/ Continue

SpecErr == InitErr /\ [][NextErr]_vars

(***************************************************************************)
(* C1                                                                      *)
(***************************************************************************)
\* No step is taken once the process has exited.
Dead == pc # "exited"

\* The step is the entry of a call in no-interact mode.
EntersNoInteract == pc = "idle" /\ pc' # "idle" /\ matcher.no_interact

Exits1WithoutReading ==
    /\ pc' = "exited"
    /\ exitCode' = {1}
    /\ reads' = 0
    /\ ret' = NoRet

\* C1 as stated: in no-interact mode prompt, prompt_password,
\* prompt_owner_token, prompt_yes, ensure_password with needs and no password,
\* and ensure_owner_token with no token end the process with exit code 1,
\* read nothing and return nothing.
C1_AsStated ==
    [][Dead /\
       (/\ EntersNoInteract
        /\ \/ call'.fn \in {"prompt", "prompt_password", "prompt_owner_token",
                            "prompt_yes"}
           \/ call'.fn = "ensure_password" /\ call'.needs /\ ~password.some
           \/ call'.fn = "ensure_owner_token" /\ ~token.some)
       => Exits1WithoutReading]_vars

\* C1 amended: in no-interact mode none of these calls reads from standard
\* input, and each of them ends the process with exit code 1 and returns
\* nothing, prompt_yes only when it is called without a default and assume-yes
\* is off.
C1_NoInteractExits ==
    [][Dead /\
       (/\ EntersNoInteract
        /\ \/ call'.fn \in {"prompt", "prompt_password", "prompt_owner_token",
                            "prompt_yes"}
           \/ call'.fn = "ensure_password" /\ call'.needs /\ ~password.some
           \/ call'.fn = "ensure_owner_token" /\ ~token.some)
       => /\ pc' # "reading"
          /\ reads' = 0
          /\ (call'.fn = "prompt_yes" => ~call'.def.some /\ ~matcher.assume_yes)
             => Exits1WithoutReading]_vars

C1_Witness ==
    /\ matcher.no_interact
    /\ call.fn = "prompt_owner_token"
    /\ pc = "exited"
    /\ exitCode = {1}
    /\ reads = 0

(***************************************************************************)
(* C2                                                                      *)
(***************************************************************************)
Blank(line) == \A k \in 1..Len(line) : line[k] \in WhiteSpace

EmptyTokenLine ==
    ErrPrint("eprintln",
             <<"Empty owner token given, which is invalid. Use {} to cancel.">>)

\* C2: in interactive mode ensure_owner_token rejects every empty token, be
\* it passed in or typed (the prompt hands over what was typed without the
\* white space around it), unsets the token and prompts again, any number of
\* times in a row; it returns at the first token that is not empty, and then
\* the token is set and not empty.
C2_OwnerToken ==
    [][(call'.fn = "ensure_owner_token" /\ ~matcher.no_interact) =>
          \* the entry
          /\ (pc = "idle" /\ token = SomeS(<<>>)) =>
                /\ pc' = "reading"
                /\ token' = NoneS
                /\ EmptyTokenLine \in {out'[i] : i \in 1..Len(out')}
          /\ (pc = "idle" /\ token.some /\ token.v # <<>>) =>
                pc' = "returned" /\ token' = token /\ reads' = 0
          /\ (pc = "idle" /\ ~token.some) => pc' = "reading" /\ token' = NoneS
          \* a line was read
          /\ (pc = "reading" /\ reads' = reads + 1 /\ lastin'.ok) =>
                IF Blank(lastin'.line)
                THEN /\ pc' = "reading"
                     /\ token' = NoneS
                     /\ out' = out \o <<EmptyTokenLine,
                                        ErrPrint("prompt", <<"Owner token">>)>>
                ELSE /\ pc' = "returned"
                     /\ token'.some
                     /\ token'.v \in Cores(lastin'.line)
          \* it has returned
          /\ pc' = "returned" => token'.some /\ token'.v # <<>>]_vars

C2_Witness ==
    /\ call.fn = "ensure_owner_token"
    /\ pc = "returned"
    /\ reads >= 3
    /\ token = SomeS(Secret)

(***************************************************************************)
(* C3                                                                      *)
(***************************************************************************)
ReadsAnswer ==
    /\ pc = "reading"
    /\ call.fn = "prompt_yes"
    /\ reads' = reads + 1
    /\ lastin'.ok

\* C3: prompt_yes with a default d, interactive and without assume-yes,
\* returns d at once when the answer is empty or white space only, without
\* asking again: after exactly one prompt when that is the first answer.
C3_DefaultOnEmpty ==
    [][(ReadsAnswer /\ call.def.some /\ Blank(lastin'.line)) =>
          /\ ~matcher.no_interact /\ ~matcher.assume_yes
          /\ pc' = "returned"
          /\ ret'.b = call.def.v
          /\ out' = out
          /\ reads = 0 =>
                out' = <<ErrPrint("prompt", <<Question>> \o options(call.def))>>]_vars

C3_Witness ==
    /\ call.fn = "prompt_yes"
    /\ call.def = SomeB(TRUE)
    /\ pc = "returned"
    /\ reads = 1
    /\ lastin = Ok(<<" ", "\n">>)
    /\ ret.b = TRUE

(***************************************************************************)
(* C4                                                                      *)
(***************************************************************************)
\* C4: whatever the flags of the matcher, prompt_yes with no_interact() true
\* and a default Some(d) returns d and reads no input.
C4_DefaultInNoInteract ==
    (call.fn = "prompt_yes" /\ matcher.no_interact /\ call.def.some) =>
        /\ pc = "returned"
        /\ ret.b = call.def.v
        /\ reads = 0

(***************************************************************************)
(* C9                                                                      *)
(***************************************************************************)
\* C9: when ensure_password returns, password.is_some() = needs.  If that held
\* on entry the password is unchanged and nothing is prompted or printed; a
\* password set but not needed is cleared; one needed but unset becomes what
\* the password prompt gave, or the process exits with code 1 in no-interact
\* mode.
C9_EnsurePassword ==
    [][(call'.fn = "ensure_password") =>
          /\ pc' = "returned" => password'.some = call'.needs
          /\ (pc = "idle" /\ password.some = call'.needs) =>
                /\ pc' = "returned"
                /\ password' = password
                /\ out' = <<>>
                /\ reads' = 0
          /\ (pc = "idle" /\ password.some /\ ~call'.needs) =>
                pc' = "returned" /\ password' = NoneS
          /\ (pc = "idle" /\ ~password.some /\ call'.needs) =>
                IF matcher.no_interact
                THEN pc' = "exited" /\ exitCode' = {1} /\ reads' = 0
                ELSE pc' = "reading" /\ password' = NoneS
          /\ (pc = "reading" /\ reads' = reads + 1 /\ lastin'.ok) =>
                pc' = "returned" /\ password' = SomeS(lastin'.line)]_vars

C9_Witness ==
    /\ call.fn = "ensure_password"
    /\ call.needs
    /\ pc = "returned"
    /\ reads = 1
    /\ password = SomeS(<<" ">>)

(***************************************************************************)
(* C10                                                                     *)
(***************************************************************************)
\* C10: interactive and without assume-yes, prompt_yes returns nothing for an
\* answer no boolean derives from (an empty one without default included):
\* it asks the same question with the same default again, any number of
\* times, and what it returns in the end depends on the last answer alone:
\* the default if that is empty and there is one, else what derives from it.
C10_AsksAgain ==
    [][ReadsAnswer =>
          LET line == lastin'.line
              same == out[Len(out)]
          IN  /\ same = ErrPrint("prompt", <<Question>> \o options(call.def))
              /\ IF Blank(line) /\ call.def.some
                 THEN pc' = "returned" /\ ret'.b = call.def.v
                 ELSE IF SaysYes(line) \/ SaysNo(line)
                 THEN pc' = "returned" /\ ret'.b = SaysYes(line)
                 ELSE /\ pc' = "reading"
                      /\ out' = Append(out, same)
                      /\ call' = call
                      /\ ret' = NoRet]_vars

C10_Witness ==
    /\ call.fn = "prompt_yes"
    /\ call.def = NoneB
    /\ pc = "returned"
    /\ reads >= 3
    /\ Len(out) = reads
    /\ lastin = Ok(<<"N", "o", "\n">>)
    /\ ret.b = FALSE

(***************************************************************************)
(* C7                                                                      *)
(***************************************************************************)
Kinds(lines, kind) == {i \in 1..Len(lines) : lines[i].kind = kind}
Printable(chain) == {i \in 1..Len(chain) : chain[i] # ""}
Rank(S, i) == Cardinality({j \in S : j <= i})

OneErrorLine == Cardinality(Kinds(out, "error:")) = 1

GenericOnlyForNothing ==
    (ErrLine(Undefined) \in {out[i] : i \in 1..Len(out)})
        <=> Printable(call.chain) = {}

\* C7 as stated: print_error prints the top-level message after "error:" and
\* each later cause, in the order of the chain, after "caused by:"; there is
\* exactly one "error:" line for every chain, and the generic line is printed
\* only when the chain has no message to print.
C7_AsStated ==
    (call.fn = "print_error" /\ pc = "returned") =>
        /\ OneErrorLine
        /\ GenericOnlyForNothing
        /\ Printable(call.chain) # {} =>
              /\ out[1] = ErrLine(call.chain[1])
              /\ \A i \in Printable(call.chain) \ {1} :
                    out[Rank(Printable(call.chain) \cup {1}, i)]
                        = CauseLine(call.chain[i])

\* C7 amended: print_error prints the first message of the chain that is not
\* empty after "error:" and each later one that is not empty, in the order of
\* the chain, after "caused by:"; exactly one "error:" line for every chain;
\* the generic line only when the chain has no message that is not empty.
C7_PrintError ==
    (call.fn = "print_error" /\ pc = "returned") =>
        LET P == Printable(call.chain) IN
        /\ OneErrorLine
        /\ GenericOnlyForNothing
        /\ P # {} =>
              /\ Len(out) = Cardinality(P)
              /\ \A i \in P :
                    out[Rank(P, i)] = IF Rank(P, i) = 1
                                      THEN ErrLine(call.chain[i])
                                      ELSE CauseLine(call.chain[i])
        /\ P = {} => out = <<ErrLine(Undefined)>>

C7_Witness ==
    /\ call.fn = "print_error"
    /\ pc = "returned"
    /\ call.chain = <<"", "Failed to read input from prompt", "broken pipe">>
    /\ out = <<ErrLine("Failed to read input from prompt"), CauseLine("broken pipe")>>

(***************************************************************************)
(* C8                                                                      *)
(***************************************************************************)
HintOptions ==
    <<"--password <PASSWORD>", "--owner <TOKEN>", "--history <FILE>",
      "--force", "--verbose", "--help">>

Flags(h) == <<h.password, h.owner, h.history, h.force, h.verbose, h.help>>

\* lines is the blank separator and then the hints of the set flags, in the
\* order of the options; nothing at all when no flag is set.
HintsOf(h, lines) ==
    LET S == {i \in 1..6 : Flags(h)[i]} IN
    IF S = {} THEN lines = <<>>
    ELSE /\ Len(lines) = 1 + Cardinality(S)
         /\ lines[1] = ErrPrint("blank", <<>>)
         /\ \A i \in S : lines[1 + Rank(S, i)] = ErrPrint("hint", <<HintOptions[i]>>)

\* C8: quit_error and quit_error_msg print the error with its causes, then the
\* hints of the hint configuration (nothing, not even the blank line, when no
\* flag is set), then end the process with exit code 1; they never return.
\* quit ends the process with exit code 0.
C8_QuitError ==
    /\ call.fn \in {"quit_error", "quit_error_msg"} =>
          LET n == Cardinality(Kinds(out, "error:") \cup Kinds(out, "caused by:")) IN
          /\ pc = "exited"
          /\ exitCode = {1}
          /\ ~ENABLED NextErr
          /\ n >= 1
          /\ SubSeq(out, 1, n) = print_error(call.chain)
          /\ HintsOf(call.hints, SubSeq(out, n + 1, Len(out)))
    /\ call.fn = "quit" => pc = "exited" /\ exitCode = {0} /\ out = <<>>
    /\ pc = "exited" <=> exitCode # {}

C8_Witness ==
    /\ call.fn = "quit_error"
    /\ pc = "exited"
    /\ exitCode = {1}
    /\ call.chain = <<"Failed to read input from prompt", "broken pipe">>
    /\ call.hints = [ErrorHints_default EXCEPT !.owner = TRUE, !.help = FALSE]
    /\ out = <<ErrLine("Failed to read input from prompt"), CauseLine("broken pipe"),
               ErrPrint("blank", <<>>), ErrPrint("hint", <<"--owner <TOKEN>">>),
               ErrPrint("hint", <<"--verbose">>)>>

C8_WitnessNoHints ==
    /\ call.fn = "quit_error_msg"
    /\ pc = "exited"
    /\ ~ErrorHints_any(call.hints)
    /\ Len(out) = 1

====
